---- MODULE Spec2Model ----
(***************************************************************************)
(* Model of history.py (ayanftw/commit-history): the commit collection,    *)
(* parsing, deduplication and grouping done by main(), get_commits(),      *)
(* get_branches(), run_git_command() and find_git_repos().                 *)
(*                                                                         *)
(* Text is a sequence of symbols.  FS and RS are the bytes 0x1E and 0x1F,  *)
(* NL and SP are newline and space; every other symbol is ordinary text.   *)
(***************************************************************************)
EXTENDS Integers, Sequences, FiniteSets, TLC

VARIABLES
    root,        \* the filesystem object at PROJECTS_ROOT: "dir", "missing" or "file"
    git_ok,      \* TRUE iff the git executable can be launched
    repos,       \* names of the subdirectories of root that contain .git
    refs,        \* repo -> what `git for-each-ref` answered ([exit, refs])
    log,         \* <<repo, ref>> -> what `git log ref` answered ([exit, hashes])
    pc,          \* position of main()
    killed,      \* TRUE once the process has been killed by a signal
    git_dirs,    \* repositories the outer loop of main has still to visit
    repo,        \* git_dir.name of the repository being visited
    branches,    \* branches the middle loop has still to visit
    branch,      \* the branch being visited
    records,     \* the records git wrote for the current log query
    output,      \* what run_git_command returned for the current log query
    commits,     \* parsed commits the inner loop has still to visit
    seen,        \* the dedup set of main
    all_commits, \* date_str -> repo -> branch -> list of commits
    todo,        \* date keys the render loop has still to visit
    stdout,      \* what has been written to standard output
    error,       \* the exception that ended the run ([exc, at])
    git_calls    \* number of git subprocess invocations attempted

vars == <<root, git_ok, repos, refs, log, pc, killed, git_dirs, repo, branches,
          branch, records, output, commits, seen, all_commits, todo, stdout,
          error, git_calls>>

world == <<root, git_ok, repos>>

-----------------------------------------------------------------------------
(* Bounds of the model *)

MaxRecords == 2     \* records in one raw log output (parser specification)
MaxBranches == 2    \* refs one repository has
MaxQueries == 2     \* refs of all repositories together
MaxCommits == 3     \* commits all log queries of a run return together

-----------------------------------------------------------------------------
(* Text *)

FS == "FS"
RS == "RS"
NL == "NL"
SP == "SP"

\* str.isspace(): 0x1E and 0x1F count as whitespace for str.strip()
Whitespace == {SP, NL, FS, RS}

Digits == <<"0", "1", "2", "3", "4", "5", "6", "7", "8", "9">>

IsDigit(c) == \E i \in 1..10 : Digits[i] = c

DigitVal(c) == (CHOOSE i \in 1..10 : Digits[i] = c) - 1

RECURSIVE LStrip(_, _)
LStrip(s, chars) ==
    IF s = <<>> THEN <<>>
    ELSE IF Head(s) \in chars THEN LStrip(Tail(s), chars)
    ELSE s

RECURSIVE RStrip(_, _)
RStrip(s, chars) ==
    IF s = <<>> THEN <<>>
    ELSE IF s[Len(s)] \in chars THEN RStrip(SubSeq(s, 1, Len(s) - 1), chars)
    ELSE s

\* str.strip(chars)
StripChars(s, chars) == RStrip(LStrip(s, chars), chars)

\* str.strip()
Strip(s) == StripChars(s, Whitespace)

\* index of the first occurrence of sep in s, 0 when there is none
RECURSIVE Find(_, _, _)
Find(s, sep, i) ==
    IF i > Len(s) THEN 0
    ELSE IF s[i] = sep THEN i
    ELSE Find(s, sep, i + 1)

\* str.split(sep, maxsplit); maxsplit = -1 means no limit
RECURSIVE Split(_, _, _)
Split(s, sep, maxsplit) ==
    LET i == Find(s, sep, 1)
    IN  IF maxsplit = 0 \/ i = 0 THEN <<s>>
        ELSE <<SubSeq(s, 1, i - 1)>> \o
             Split(SubSeq(s, i + 1, Len(s)), sep,
                   IF maxsplit < 0 THEN maxsplit ELSE maxsplit - 1)

RECURSIVE Join(_, _)
Join(parts, sep) ==
    IF parts = <<>> THEN <<>>
    ELSE IF Len(parts) = 1 THEN parts[1]
    ELSE parts[1] \o sep \o Join(Tail(parts), sep)

RECURSIVE DigitsValue(_, _)
DigitsValue(s, acc) ==
    IF s = <<>> THEN acc
    ELSE DigitsValue(Tail(s), 10 * acc + DigitVal(Head(s)))

\* int(text): surrounding whitespace is ignored, anything but digits raises
ToInt(s) ==
    LET t == Strip(s)
    IN  IF t # <<>> /\ \A i \in 1..Len(t) : IsDigit(t[i])
        THEN [ok |-> TRUE, val |-> DigitsValue(t, 0)]
        ELSE [ok |-> FALSE, val |-> 0]

-----------------------------------------------------------------------------
(* run_git_command and the parsing step of get_commits *)

NoError == [exc |-> "none", at |-> "none"]

\* one record as git writes it for log_format: the fields joined by FS, then RS
FormatRecord(fields) == Join(fields, <<FS>>) \o <<RS>>

\* the text git writes for a list of records; sep is what git puts between
\* two records
RECURSIVE FormatLog(_, _)
FormatLog(recs, sep) ==
    IF recs = <<>> THEN <<>>
    ELSE IF Len(recs) = 1 THEN FormatRecord(recs[1])
    ELSE FormatRecord(recs[1]) \o sep \o FormatLog(Tail(recs), sep)

\* run_git_command: launchable is whether the executable starts, exit its
\* exit status, text what it wrote to standard output
RunGitCommand(launchable, exit, text) ==
    IF ~launchable
    THEN [exc |-> "FileNotFoundError", out |-> <<>>]
    ELSE IF exit # 0
    THEN [exc |-> "none", out |-> <<>>]
    ELSE [exc |-> "none", out |-> Strip(text)]

\* the dict built from one record of the log output
ParseRecord(line) ==
    LET parts == Split(Strip(line), FS, 3)
        n == Len(parts)
        ts == IF n >= 3 THEN ToInt(parts[3]) ELSE [ok |-> FALSE, val |-> 0]
    IN  IF n < 3 THEN [exc |-> "IndexError"]
        ELSE IF ~ts.ok THEN [exc |-> "ValueError"]
        ELSE IF n < 4 THEN [exc |-> "IndexError"]
        ELSE [exc |-> "none",
              commit |-> [hash |-> parts[1], date_str |-> parts[2],
                          timestamp |-> ts.val, message |-> Strip(parts[4])]]

RECURSIVE ParseLines(_, _)
ParseLines(lines, acc) ==
    IF lines = <<>> THEN [exc |-> "none", commits |-> acc]
    ELSE LET r == ParseRecord(Head(lines))
         IN  IF r.exc # "none" THEN [exc |-> r.exc, commits |-> <<>>]
             ELSE ParseLines(Tail(lines), Append(acc, r.commit))

\* get_commits from the returned output on
ParseOutput(out) ==
    IF out = <<>> THEN [exc |-> "none", commits |-> <<>>]
    ELSE ParseLines(Split(StripChars(out, {RS}), RS, -1), <<>>)

-----------------------------------------------------------------------------
(* Inputs of the parser specification *)

Hashes == {<<"a1">>, <<"a2">>, <<"a3">>}
Messages == {<<>>, <<"x">>, <<"x", NL, SP, "y">>, <<SP, "x", NL>>}

WellFormed ==
    {<<h, d, t, m>> : h \in {<<"a1">>, <<"a2">>}, d \in {<<"2024-01-01">>},
                      t \in {<<"1", "7">>, <<"2">>}, m \in Messages}

\* records cut short: fewer than four fields
Malformed ==
    {<<<<"a3">>>>, <<<<"a3">>, <<"2024-01-02">>>>,
     <<<<"a3">>, <<"2024-01-02">>, <<"3">>>>}

RawRecords == WellFormed \cup Malformed

RecordLists == UNION {[1..n -> RawRecords] : n \in 0..MaxRecords}

-----------------------------------------------------------------------------
(* The world main() runs in *)

RepoNames == {"alpha", "beta"}

RepoOrder == <<"alpha", "beta">>

HeadsFeature == <<"refs", "/", "heads", "/", "feature">>
HeadsMain == <<"refs", "/", "heads", "/", "main">>
OriginMain == <<"refs", "/", "remotes", "/", "origin", "/", "main">>

\* the refs a repository can have, in the order of their names, which is the
\* order for-each-ref lists them in and the order sorted() gives
RefOrder == <<HeadsFeature, HeadsMain, OriginMain>>

DateOrder == <<<<"2024-01-01">>, <<"2024-01-02">>>>

Range(s) == {s[i] : i \in 1..Len(s)}

IsIncreasing(idx) == \A i \in 1..(Len(idx) - 1) : idx[i] < idx[i + 1]

RefLists ==
    {[i \in 1..Len(idx) |-> RefOrder[idx[i]]] :
        idx \in {x \in UNION {[1..n -> 1..Len(RefOrder)] : n \in 0..MaxBranches} :
                    IsIncreasing(x)}}

RefResults ==
    {[exit |-> 0, refs |-> l] : l \in RefLists} \cup {[exit |-> 128, refs |-> <<>>]}

IsInjective(s) == \A i, j \in 1..Len(s) : s[i] = s[j] => i = j

HashLists ==
    {l \in UNION {[1..n -> Hashes] : n \in 0..Cardinality(Hashes)} : IsInjective(l)}

LogResults ==
    {[exit |-> 0, hashes |-> l] : l \in HashLists} \cup {[exit |-> 128, hashes |-> <<>>]}

\* the number of refs listed so far
RECURSIVE RefsListed(_, _)
RefsListed(f, S) ==
    IF S = {} THEN 0
    ELSE LET x == CHOOSE y \in S : TRUE
         IN  Len(f[x].refs) + RefsListed(f, S \ {x})

\* the number of commits returned so far
RECURSIVE CommitsReturned(_, _)
CommitsReturned(f, S) ==
    IF S = {} THEN 0
    ELSE LET x == CHOOSE y \in S : TRUE
         IN  Len(f[x].hashes) + CommitsReturned(f, S \ {x})

\* the fields git prints for commit h of repository r
CommitFields(r, h) ==
    IF h = <<"a1">> THEN <<h, <<"2024-01-01">>, <<"2">>, <<"x">>>>
    ELSE IF h = <<"a2">> THEN <<h, <<"2024-01-01">>, <<"1">>, <<"x", NL, SP, "y">>>>
    ELSE IF r = "alpha" THEN <<h, <<"2024-01-02">>, <<"3">>, <<"z", NL>>>>
    ELSE <<h, <<"2024-01-02">>, <<"3">>, <<>>>>

-----------------------------------------------------------------------------
(* Helpers of main *)

\* re.sub(r"^refs/(heads|remotes/[^/]+)/", "", branch)
DisplayName(b) ==
    IF Len(b) >= 4 /\ SubSeq(b, 1, 4) = <<"refs", "/", "heads", "/">>
    THEN SubSeq(b, 5, Len(b))
    ELSE IF /\ Len(b) >= 6
            /\ SubSeq(b, 1, 4) = <<"refs", "/", "remotes", "/">>
            /\ b[5] # "/"
            /\ b[6] = "/"
    THEN SubSeq(b, 7, Len(b))
    ELSE b

\* str.splitlines() of the stripped for-each-ref output
SplitLines(text) == IF text = <<>> THEN <<>> ELSE Split(text, NL, -1)

\* key = (git_dir.name, commit["hash"])
DedupKeyHashOnly(name, hash) == <<"", hash>>

DedupKey(name, hash) == <<name, hash>>

\* if key in seen
AlreadySeenNever(s, key) == FALSE

AlreadySeen(s, key) == key \in s

\* the branch key of all_commits
GroupKeyDisplay(b) == DisplayName(b)

GroupKey(b) == b

EmptyMap == [x \in {} |-> <<>>]

Get(f, k, default) == IF k \in DOMAIN f THEN f[k] ELSE default

Put(f, k, v) == [x \in DOMAIN f \cup {k} |-> IF x = k THEN v ELSE f[x]]

\* all_commits[d][r][b]: a read of the nested defaultdict creates the entries
Touch(ac, d, r, b) ==
    LET byRepo == Get(ac, d, EmptyMap)
        byBranch == Get(byRepo, r, EmptyMap)
    IN  Put(ac, d, Put(byRepo, r, Put(byBranch, b, Get(byBranch, b, <<>>))))

\* all_commits[d][r][b].append(c)
Insert(ac, d, r, b, c) ==
    LET byRepo == Get(ac, d, EmptyMap)
        byBranch == Get(byRepo, r, EmptyMap)
    IN  Put(ac, d, Put(byRepo, r, Put(byBranch, b, Append(Get(byBranch, b, <<>>), c))))

\* what the `continue` of a duplicate leaves of all_commits
OnDuplicateTouch(ac, d, r, b) == Touch(ac, d, r, b)

OnDuplicate(ac, d, r, b) == ac

\* sorted(keys): the keys of S in the order of `order`
SortKeys(S, order) == SelectSeq(order, LAMBDA k : k \in S)

RECURSIVE InsertByTimestamp(_, _)
InsertByTimestamp(s, c) ==
    IF s = <<>> THEN <<c>>
    ELSE IF s[Len(s)].timestamp <= c.timestamp THEN Append(s, c)
    ELSE Append(InsertByTimestamp(SubSeq(s, 1, Len(s) - 1), c), s[Len(s)])

RECURSIVE SortFrom(_, _)
SortFrom(s, acc) ==
    IF s = <<>> THEN acc
    ELSE SortFrom(Tail(s), InsertByTimestamp(acc, Head(s)))

\* sorted(commits, key=itemgetter("timestamp")), a stable sort
SortByTimestampNone(cs) == cs

SortByTimestamp(cs) == SortFrom(cs, <<>>)

\* the lines of one branch of a date box
BranchLines(b, cs) ==
    [name |-> DisplayName(b), count |-> Len(cs), commits |-> SortByTimestamp(cs)]

\* the lines of one repository of a date box
RepoLines(r, byBranch) ==
    LET bs == SortKeys(DOMAIN byBranch, RefOrder)
    IN  [repo |-> r,
         branches |-> [i \in 1..Len(bs) |-> BranchLines(bs[i], byBranch[bs[i]])]]

\* the box main prints for one date
DateBox(d, byRepo) ==
    LET rs == SortKeys(DOMAIN byRepo, RepoOrder)
    IN  [kind |-> "box", date |-> d,
         body |-> [i \in 1..Len(rs) |-> RepoLines(rs[i], byRepo[rs[i]])]]

Header == [kind |-> "header", date |-> <<>>, body |-> <<>>]

\* Path(root).iterdir() of find_git_repos
IterdirErrorMissingOnly(r) ==
    IF r = "missing" THEN "FileNotFoundError" ELSE "none"

IterdirError(r) ==
    IF r = "missing" THEN "FileNotFoundError"
    ELSE IF r = "file" THEN "NotADirectoryError"
    ELSE "none"

\* the three for loops of main have nothing left to visit
LoopExhaustedInner(dirs, bs, cs) == bs = <<>> /\ cs = <<>>

LoopExhausted(dirs, bs, cs) == dirs = <<>> /\ bs = <<>> /\ cs = <<>>

\* the orders iterdir() can list the directories of S in
Orderings(S) ==
    {s \in [1..Cardinality(S) -> S] : IsInjective(s)}

-----------------------------------------------------------------------------
(* main *)

Idle ==
    /\ killed = FALSE
    /\ git_dirs = <<>>
    /\ repo = ""
    /\ branches = <<>>
    /\ branch = <<>>
    /\ output = <<>>
    /\ commits = <<>>
    /\ seen = {}
    /\ all_commits = EmptyMap
    /\ todo = <<>>
    /\ stdout = <<>>
    /\ error = NoError
    /\ git_calls = 0

Init ==
    /\ root \in {"dir", "missing", "file"}
    /\ git_ok \in BOOLEAN
    /\ repos \in SUBSET RepoNames
    /\ root # "dir" => repos = {}
    /\ refs = EmptyMap
    /\ log = EmptyMap
    /\ pc = "start"
    /\ records = <<>>
    /\ Idle

Raise(exc, at) ==
    /\ pc' = "error"
    /\ error' = [exc |-> exc, at |-> at]

\* print(f"Listing commits by ...")
PrintHeader ==
    /\ pc = "start" /\ ~killed
    /\ stdout' = Append(stdout, Header)
    /\ pc' = "scan"
    /\ UNCHANGED <<world, refs, log, killed, git_dirs, repo, branches, branch, records,
                   output, commits, seen, all_commits, todo, error, git_calls>>

\* git_dirs = find_git_repos(PROJECTS_ROOT); seen = set(); all_commits = ...
FindGitRepos ==
    /\ pc = "scan" /\ ~killed
    /\ IF IterdirError(root) # "none"
       THEN /\ Raise(IterdirError(root), "find_git_repos")
            /\ UNCHANGED git_dirs
       ELSE /\ git_dirs' \in Orderings(repos)
            /\ pc' = "loop"
            /\ UNCHANGED error
    /\ seen' = {}
    /\ all_commits' = EmptyMap
    /\ UNCHANGED <<world, refs, log, killed, repo, branches, branch, records, output,
                   commits, todo, stdout, git_calls>>

\* for git_dir in git_dirs: branches = get_branches(git_dir)
GetBranches ==
    /\ pc = "loop" /\ ~killed
    /\ commits = <<>> /\ branches = <<>> /\ git_dirs # <<>>
    /\ \E answer \in RefResults :
         LET name == Head(git_dirs)
             res == RunGitCommand(git_ok, answer.exit, Join(answer.refs, <<NL>>))
         IN  /\ Len(answer.refs) <= MaxQueries - RefsListed(refs, DOMAIN refs)
             /\ git_dirs' = Tail(git_dirs)
             /\ repo' = name
             /\ git_calls' = git_calls + 1
             /\ IF res.exc # "none"
                THEN /\ Raise(res.exc, "run_git_command")
                     /\ UNCHANGED <<branches, refs>>
                ELSE /\ branches' = SplitLines(res.out)
                     /\ refs' = Put(refs, name, answer)
                     /\ UNCHANGED <<pc, error>>
    /\ UNCHANGED <<world, log, killed, branch, records, output, commits, seen,
                   all_commits, todo, stdout>>

\* for branch in branches: get_commits(git_dir, branch, ...)
GetCommits ==
    /\ pc = "loop" /\ ~killed
    /\ commits = <<>> /\ branches # <<>>
    /\ \E answer \in LogResults :
         LET b == Head(branches)
             recs == [i \in 1..Len(answer.hashes) |->
                         CommitFields(repo, answer.hashes[i])]
             res == RunGitCommand(git_ok, answer.exit, FormatLog(recs, <<NL>>))
             parsed == ParseOutput(res.out)
         IN  /\ Len(answer.hashes) <= MaxCommits - CommitsReturned(log, DOMAIN log)
             /\ branches' = Tail(branches)
             /\ branch' = b
             /\ records' = recs
             /\ git_calls' = git_calls + 1
             /\ IF res.exc # "none"
                THEN /\ Raise(res.exc, "run_git_command")
                     /\ UNCHANGED <<output, commits, log>>
                ELSE /\ output' = res.out
                     /\ log' = Put(log, <<repo, b>>, answer)
                     /\ IF parsed.exc # "none"
                        THEN /\ Raise(parsed.exc, "get_commits")
                             /\ UNCHANGED commits
                        ELSE /\ commits' = parsed.commits
                             /\ UNCHANGED <<pc, error>>
    /\ UNCHANGED <<world, refs, killed, git_dirs, repo, seen, all_commits, todo,
                   stdout>>

\* one iteration of `for commit in get_commits(...)`
ProcessCommit ==
    /\ pc = "loop" /\ ~killed
    /\ commits # <<>>
    /\ LET c == Head(commits)
           key == DedupKey(repo, c.hash)
       IN  IF AlreadySeen(seen, key)
           THEN /\ all_commits' = OnDuplicate(all_commits, c.date_str, repo, GroupKey(branch))
                /\ UNCHANGED seen
           ELSE /\ seen' = seen \cup {key}
                /\ all_commits' = Insert(all_commits, c.date_str, repo, GroupKey(branch), c)
    /\ commits' = Tail(commits)
    /\ UNCHANGED <<world, refs, log, pc, killed, git_dirs, repo, branches, branch, records,
                   output, todo, stdout, error, git_calls>>

\* the loops end; sorted(all_commits.items()) fixes the order of the boxes
StartRender ==
    /\ pc = "loop" /\ ~killed
    /\ LoopExhausted(git_dirs, branches, commits)
    /\ todo' = SortKeys(DOMAIN all_commits, DateOrder)
    /\ pc' = "render"
    /\ UNCHANGED <<world, refs, log, killed, git_dirs, repo, branches, branch, records,
                   output, commits, seen, all_commits, stdout, error, git_calls>>

\* one iteration of the render loop: click.secho of one date box
RenderDate ==
    /\ pc = "render" /\ ~killed
    /\ todo # <<>>
    /\ stdout' = Append(stdout, DateBox(Head(todo), all_commits[Head(todo)]))
    /\ todo' = Tail(todo)
    /\ UNCHANGED <<world, refs, log, pc, killed, git_dirs, repo, branches, branch, records,
                   output, commits, seen, all_commits, error, git_calls>>

\* main returns
Finish ==
    /\ pc = "render" /\ ~killed
    /\ todo = <<>>
    /\ pc' = "done"
    /\ UNCHANGED <<world, refs, log, killed, git_dirs, repo, branches, branch, records,
                   output, commits, seen, all_commits, todo, stdout, error,
                   git_calls>>

\* a signal ends the process where it stands
Kill ==
    /\ ~killed
    /\ pc \notin {"done", "error"}
    /\ killed' = TRUE
    /\ UNCHANGED <<world, refs, log, pc, git_dirs, repo, branches, branch, records, output,
                   commits, seen, all_commits, todo, stdout, error, git_calls>>

Next ==
    \/ PrintHeader
    \/ FindGitRepos
    \/ GetBranches
    \/ GetCommits
    \/ ProcessCommit
    \/ StartRender
    \/ RenderDate
    \/ Finish
    \/ Kill

Spec == Init /\ [][Next]_vars

-----------------------------------------------------------------------------
(* get_commits alone, on the output of one log query *)

InitParse ==
    /\ root = "dir"
    /\ git_ok = TRUE
    /\ repos = {}
    /\ refs = EmptyMap
    /\ log = EmptyMap
    /\ pc = "get_commits"
    /\ Idle
    /\ records \in RecordLists

\* output = run_git_command(...); the loop over the records of output
GetCommitsOnly ==
    /\ pc = "get_commits"
    /\ \E sep \in {<<>>, <<NL>>} :
         LET res == RunGitCommand(git_ok, 0, FormatLog(records, sep))
             parsed == ParseOutput(res.out)
         IN  /\ output' = res.out
             /\ IF parsed.exc # "none"
                THEN /\ Raise(parsed.exc, "get_commits")
                     /\ UNCHANGED commits
                ELSE /\ commits' = parsed.commits
                     /\ pc' = "parsed"
                     /\ UNCHANGED error
    /\ UNCHANGED <<world, refs, log, killed, git_dirs, repo, branches, branch, records,
                   seen, all_commits, todo, stdout, git_calls>>

NextParse == GetCommitsOnly

SpecParse == InitParse /\ [][NextParse]_vars

-----------------------------------------------------------------------------
(* Vocabulary of the properties *)

\* the positions <<date, repo, branch key, index>> of the grouped structure
Entries ==
    UNION {UNION {UNION {{<<d, r, b, i>> : i \in 1..Len(all_commits[d][r][b])} :
                            b \in DOMAIN all_commits[d][r]} :
                     r \in DOMAIN all_commits[d]} :
              d \in DOMAIN all_commits}

EntryCommit(e) == all_commits[e[1]][e[2]][e[3]][e[4]]

EntriesOf(r, h) == {e \in Entries : e[2] = r /\ EntryCommit(e).hash = h}

\* the hashes the log query of branch b of repository r returns
ReturnedBy(r, b) ==
    IF <<r, b>> \in DOMAIN log THEN Range(log[<<r, b>>].hashes) ELSE {}

\* the refs for-each-ref listed for repository r
RefsOf(r) == IF r \in DOMAIN refs THEN Range(refs[r].refs) ELSE {}

BranchesWith(r, h) == {b \in RefsOf(r) : h \in ReturnedBy(r, b)}

\* the first branch of r, in enumeration order, whose query returns h
FirstBranch(r, h) ==
    LET bs == refs[r].refs
        i == CHOOSE k \in 1..Len(bs) :
                /\ h \in ReturnedBy(r, bs[k])
                /\ \A j \in 1..(k - 1) : h \notin ReturnedBy(r, bs[j])
    IN  bs[i]

AggregationFinished == pc \in {"render", "done"}

IsNonDecreasing(cs) ==
    \A i \in 1..(Len(cs) - 1) : cs[i].timestamp <= cs[i + 1].timestamp

Boxes == {stdout[i] : i \in {k \in 1..Len(stdout) : stdout[k].kind = "box"}}

BranchLinesOf(box) ==
    UNION {Range(box.body[i].branches) : i \in 1..Len(box.body)}

-----------------------------------------------------------------------------
(* Properties *)

\* C1: after the aggregation loop, a commit returned for two or more branches
\* of one repository has exactly one entry in the grouped structure, and the
\* entry is under the first branch, in enumeration order, that returned it.
C1_DuplicateUnderFirstBranch ==
    AggregationFinished =>
        \A r \in repos : \A h \in Hashes :
            Cardinality(BranchesWith(r, h)) >= 2 =>
                /\ Cardinality(EntriesOf(r, h)) = 1
                /\ \A e \in EntriesOf(r, h) : e[3] = FirstBranch(r, h)

C1_Witness ==
    /\ pc = "done"
    /\ \E r \in repos : \E h \in Hashes :
        /\ Cardinality(BranchesWith(r, h)) >= 2
        /\ \E b \in RefsOf(r) : \E g \in ReturnedBy(r, b) :
              b # FirstBranch(r, h) /\ FirstBranch(r, g) = b

\* C2: a git subprocess that exits non-zero or cannot be launched makes
\* run_git_command return an empty result and raise nothing: the failed query
\* yields no commits and the run is not ended by an exception of the query.
C2_QueryFailureAbsorbed ==
    /\ error.at # "run_git_command"
    /\ (pc = "loop" /\ <<repo, branch>> \in DOMAIN log /\ log[<<repo, branch>>].exit # 0)
          => commits = <<>>
    /\ (pc = "loop" /\ repo \in DOMAIN refs /\ refs[repo].exit # 0) => branches = <<>>

\* C3: a batch holding a malformed record (fewer than four parts) among
\* well-formed ones parses without failure to the well-formed records of the
\* batch, in order; empty or wholly unparseable input parses to nothing.
C3_MalformedDropped ==
    LET good == SelectSeq(records, LAMBDA rec : Len(rec) = 4)
    IN  (/\ pc # "get_commits"
         /\ \E i \in 1..Len(records) : Len(records[i]) < 4
         /\ \A i \in 1..Len(good) : Strip(good[i][4]) # <<>>)
        => /\ pc = "parsed"
           /\ Len(commits) = Len(good)
           /\ \A i \in 1..Len(good) : commits[i].hash = good[i][1]

\* C4: a stream of n well-formed records parses to exactly n commits in input
\* order, the i-th with the i-th record's hash, date, timestamp and message
\* text, whatever the message (empty and multi-line messages included).
C4_WellFormedParsed ==
    (/\ pc # "get_commits"
     /\ \A i \in 1..Len(records) : Len(records[i]) = 4)
    => /\ pc = "parsed"
       /\ Len(commits) = Len(records)
       /\ \A i \in 1..Len(records) :
            /\ commits[i].hash = records[i][1]
            /\ commits[i].date_str = records[i][2]
            /\ commits[i].timestamp = DigitsValue(records[i][3], 0)
            /\ commits[i].message = Strip(records[i][4])

\* C5 as stated: a root that does not exist or is not a directory makes the
\* run fail with a ConfigurationError, before any repository is scanned or
\* any git subprocess is invoked.
C5_ConfigurationError ==
    (root # "dir" /\ pc \notin {"start", "scan"}) =>
        /\ pc = "error"
        /\ error.exc = "ConfigurationError"
        /\ git_calls = 0

\* C5 amended: a root that does not exist or is not a directory makes the run
\* fail in find_git_repos with the OSError of iterdir (FileNotFoundError for a
\* missing root, NotADirectoryError for a non-directory), before any
\* repository is scanned or any git subprocess is invoked.
C5_RootErrorBeforeScan ==
    (root # "dir" /\ pc \notin {"start", "scan"}) =>
        /\ pc = "error"
        /\ error = [exc |-> IF root = "missing" THEN "FileNotFoundError"
                            ELSE "NotADirectoryError",
                    at |-> "find_git_repos"]
        /\ git_calls = 0
        /\ git_dirs = <<>>
        /\ seen = {}
        /\ all_commits = EmptyMap

C5_Witness ==
    root = "file" /\ pc = "error" /\ stdout = <<Header>>

\* C6 as stated: the commit list of every populated branch entry of the
\* grouped structure is non-decreasing by timestamp.
C6_StoredListSorted ==
    \A e \in Entries : IsNonDecreasing(all_commits[e[1]][e[2]][e[3]])

\* C6 amended: the commit list of every branch as the render loop reads it
\* (the list printed in the date box) is non-decreasing by timestamp and holds
\* the commits of the branch entry; the stored list keeps the query's order.
C6_RenderedListSorted ==
    /\ \A box \in Boxes : \A bl \in BranchLinesOf(box) :
          IsNonDecreasing(bl.commits) /\ Len(bl.commits) = bl.count
    /\ \A box \in Boxes : \A e \in Entries :
          e[1] = box.date =>
              \E bl \in BranchLinesOf(box) :
                  /\ bl.name = DisplayName(e[3])
                  /\ Range(bl.commits) = Range(all_commits[e[1]][e[2]][e[3]])

C6_Witness ==
    \E box \in Boxes : \E e \in Entries :
        /\ e[1] = box.date
        /\ ~IsNonDecreasing(all_commits[e[1]][e[2]][e[3]])

\* C7: two refs of one repository that differ only in their namespace prefix
\* (same display name) are never merged: every branch key of the grouped
\* structure is a raw ref of its repository and holds only the commits
\* attributed to that ref, and every ref with attributed commits has its key.
C7_PrefixesNotMerged ==
    /\ \A e \in Entries :
          /\ e[3] \in RefsOf(e[2])
          /\ FirstBranch(e[2], EntryCommit(e).hash) = e[3]
    /\ AggregationFinished =>
          \A r \in repos : \A b \in RefsOf(r) : \A h \in ReturnedBy(r, b) :
              FirstBranch(r, h) = b =>
                  \E e \in EntriesOf(r, h) : e[3] = b

C7_Witness ==
    /\ pc = "done"
    /\ \E d \in DOMAIN all_commits : \E r \in DOMAIN all_commits[d] :
          /\ {HeadsMain, OriginMain} \subseteq DOMAIN all_commits[d][r]
          /\ DisplayName(HeadsMain) = DisplayName(OriginMain)

\* C8: the grouped structure never has an empty entry: every date key has a
\* repository, every repository key a branch, every branch key a non-empty
\* list; a repository or branch whose queries returned nothing, or only
\* commits already seen, has no key.
C8_NoEmptyEntry ==
    /\ \A d \in DOMAIN all_commits :
          /\ DOMAIN all_commits[d] # {}
          /\ \A r \in DOMAIN all_commits[d] :
                /\ DOMAIN all_commits[d][r] # {}
                /\ \A b \in DOMAIN all_commits[d][r] : all_commits[d][r][b] # <<>>
    /\ \A d \in DOMAIN all_commits : \A r \in DOMAIN all_commits[d] :
          \A b \in DOMAIN all_commits[d][r] :
              \E h \in ReturnedBy(r, b) : FirstBranch(r, h) = b

C8_Witness ==
    /\ pc = "done"
    /\ all_commits # EmptyMap
    /\ \E r \in repos : \E b \in RefsOf(r) :
          /\ ReturnedBy(r, b) # {}
          /\ \A h \in ReturnedBy(r, b) : FirstBranch(r, h) # b
          /\ \A d \in DOMAIN all_commits :
                r \in DOMAIN all_commits[d] => b \notin DOMAIN all_commits[d][r]
    /\ \E r \in repos : \A d \in DOMAIN all_commits : r \notin DOMAIN all_commits[d]

\* C9 as stated: a run killed before normal completion has written no date
\* box to standard output.
C9_KilledRunWritesNoBox ==
    killed => Boxes = {}

\* C9 amended: a run killed before the aggregation loop has finished has
\* written no date box: boxes are written only once every repository, branch
\* and commit has been aggregated (a run killed during rendering has written
\* the boxes of the dates rendered so far).
C9_NoBoxBeforeAggregationEnds ==
    Boxes # {} =>
        /\ AggregationFinished
        /\ git_dirs = <<>> /\ branches = <<>> /\ commits = <<>>

C9_Witness ==
    killed /\ pc = "loop" /\ all_commits # EmptyMap /\ git_dirs # <<>> /\ Boxes = {}

\* C10: seen is exactly the set of (repository, hash) pairs that have an entry
\* in the grouped structure, no pair has two entries, and at the end every
\* commit a query returned has an entry under its repository and its date, so
\* a hash returned for two repositories is entered once under each.
C10_SeenMatchesEntries ==
    /\ seen = {<<e[2], EntryCommit(e).hash>> : e \in Entries}
    /\ \A r \in repos : \A h \in Hashes : Cardinality(EntriesOf(r, h)) <= 1
    /\ AggregationFinished =>
          \A r \in repos : \A b \in RefsOf(r) : \A h \in ReturnedBy(r, b) :
              \E e \in EntriesOf(r, h) : e[1] = CommitFields(r, h)[2]

C10_Witness ==
    /\ pc = "done"
    /\ \E h \in Hashes :
          /\ <<"alpha", h>> \in seen /\ <<"beta", h>> \in seen
          /\ Cardinality(EntriesOf("alpha", h)) = 1
          /\ Cardinality(EntriesOf("beta", h)) = 1

====
